---- MODULE Spec2Model ----
(***************************************************************************)
(* A model of the yandexdisk application: the session store, the shared    *)
(* resource cache, the four request handlers of views.py and the service   *)
(* calls of YandexDiskService.py.                                          *)
(*                                                                         *)
(* Strings whose contents the code inspects (links, MIME types) are        *)
(* sequences of tokens, so that str.strip and str.startswith are computed  *)
(* on them.  Python's None is the string "None" where the other values are *)
(* strings, and a record field where they are lists.  The values of the    *)
(* FileType enumeration are written in Latin letters.                      *)
(***************************************************************************)
EXTENDS Integers, Sequences, FiniteSets, TLC

VARIABLES
    session,    \* request.session of every browser session
    cache,      \* django.core.cache.cache: key -> [val, exp] (+ ghost fields)
    now,        \* the clock, in seconds
    req,        \* per session: the Browse request waiting for the provider, if any
    resp,       \* the HTTP response of the last finished request, with what
                \* its get_public_resources call (if it made one) returned
    hist,       \* per cache key: the latest start of a finished call whose GET did not raise
    arg,        \* the input of the function applied
    out         \* the result of the function applied

vars == <<session, cache, now, req, resp, hist, arg, out>>

None == "None"

NoOut == [done |-> FALSE, value |-> <<>>]

-----------------------------------------------------------------------------
(* Bounds *)

MaxNow == 300       \* the clock stops here
MaxItems == 2       \* longest resource list in a provider response
MaxUrls == 2        \* longest list of file URLs in a Download request


-----------------------------------------------------------------------------
(* Sequences as strings *)

IsPrefix(p, s) == Len(p) <= Len(s) /\ SubSeq(s, 1, Len(p)) = p

\* str.startswith
startswith(s, p) == IsPrefix(p, s)

Space == " "

RECURSIVE lstrip(_)
lstrip(s) == IF s # <<>> /\ Head(s) = Space THEN lstrip(Tail(s)) ELSE s

RECURSIVE rstrip(_)
rstrip(s) ==
    IF s # <<>> /\ s[Len(s)] = Space THEN rstrip(SubSeq(s, 1, Len(s) - 1)) ELSE s

\* str.strip
strip(s) == rstrip(lstrip(s))

SeqsUpTo(S, n) == UNION {[1..k -> S] : k \in 0..n}

-----------------------------------------------------------------------------
(* forms.py *)

ALL == "Vse"
DOCUMENTS == "Dokumenty"
IMAGES == "Izobrazheniya"
VIDEO == "Video"
AUDIO == "Audio"

FileType == {ALL, DOCUMENTS, IMAGES, VIDEO, AUDIO}

\* a slip: documents are looked up as text
get_mime_prefix_text(file_type_name) ==
    CASE file_type_name = DOCUMENTS -> <<"text/">>
      [] file_type_name = IMAGES -> <<"image/">>
      [] file_type_name = VIDEO -> <<"video/">>
      [] file_type_name = AUDIO -> <<"audio/">>
      [] OTHER -> <<>>

\* FileType.get_mime_prefix: the registered prefix, "" for anything else
get_mime_prefix(file_type_name) ==
    CASE file_type_name = DOCUMENTS -> <<"application/">>
      [] file_type_name = IMAGES -> <<"image/">>
      [] file_type_name = VIDEO -> <<"video/">>
      [] file_type_name = AUDIO -> <<"audio/">>
      [] OTHER -> <<>>

YANDEX_PREFIX == <<"https://disk.yandex.ru/">>

Schemes == {"https://disk.yandex.ru/", "http://disk.yandex.ru/", "https://example.com/"}

\* forms.URLField: the value is stripped; it must be a URL (a scheme and a
\* host, no whitespace inside)
URLField_clean(raw) ==
    LET v == strip(raw)
    IN  [valid |-> /\ v # <<>>
                   /\ Head(v) \in Schemes
                   /\ \A i \in 1..Len(v) : v[i] # Space,
         value |-> v]

\* a slip: the prefix is looked for anywhere in the link
clean_public_key_anywhere(value) ==
    LET v == strip(value)
    IN  \E i \in 1..Len(v) : startswith(SubSeq(v, i, Len(v)), YANDEX_PREFIX)

\* PublicLinkForm.clean_public_key: TRUE when no ValidationError is raised
clean_public_key_ok(value) == startswith(strip(value), YANDEX_PREFIX)

\* ChoiceField(required=False): a choice, or the empty value
file_type_valid(ft) == ft \in FileType \/ ft = ""

\* PublicLinkForm.is_valid with its cleaned_data
PublicLinkForm(public_key, file_type) ==
    LET url == URLField_clean(public_key)
        keyOk == url.valid /\ clean_public_key_ok(url.value)
    IN  [is_valid |-> keyOk /\ file_type_valid(file_type),
         errors |-> (IF keyOk THEN {} ELSE {"public_key"})
                    \cup (IF file_type_valid(file_type) THEN {} ELSE {"file_type"}),
         public_key |-> strip(url.value),
         file_type |-> file_type]

-----------------------------------------------------------------------------
(* YandexDiskService.py: pure helpers *)

TTL == 300

\* the clock advances in steps of half the time-to-live
TickLens == {TTL \div 2}

\* _generate_cache_key
_generate_cache_key(public_key) == <<"public_resources_">> \o public_key

HasKey(d, k) == k \in DOMAIN d

\* a slip: the type is looked at before the embedded items
_parse_public_resources_typefirst(data) ==
    IF HasKey(data, "type") /\ data.type = "file"
    THEN <<data>>
    ELSE IF HasKey(data, "embedded") /\ HasKey(data.embedded, "items")
         THEN data.embedded.items
         ELSE <<>>

\* _parse_public_resources
_parse_public_resources(data) ==
    IF HasKey(data, "embedded") /\ HasKey(data.embedded, "items")
    THEN data.embedded.items
    ELSE IF HasKey(data, "type") /\ data.type = "file"
         THEN <<data>>
         ELSE <<>>

-----------------------------------------------------------------------------
(* views.py: pure helpers *)

\* f.get('mime_type', '')
mime_type_of(f) == IF HasKey(f, "mime_type") THEN f.mime_type ELSE <<>>

\* a slip: the category All is not set apart
_filter_files_noall(files, file_type) ==
    LET mime_prefix == get_mime_prefix(file_type)
    IN  IF mime_prefix # <<>>
        THEN SelectSeq(files, LAMBDA f : startswith(mime_type_of(f), mime_prefix))
        ELSE <<>>

\* a slip: an empty category is taken for All
_filter_files_emptyall(files, file_type) ==
    IF file_type = ALL \/ file_type = ""
    THEN files
    ELSE LET mime_prefix == get_mime_prefix(file_type)
         IN  IF mime_prefix # <<>>
             THEN SelectSeq(files, LAMBDA f : startswith(mime_type_of(f), mime_prefix))
             ELSE <<>>

\* HomeView._filter_files
_filter_files(files, file_type) ==
    IF file_type = ALL
    THEN files
    ELSE LET mime_prefix == get_mime_prefix(file_type)
         IN  IF mime_prefix # <<>>
             THEN SelectSeq(files, LAMBDA f : startswith(mime_type_of(f), mime_prefix))
             ELSE <<>>

\* urllib.parse.parse_qs of a query given as its name=value pairs in order:
\* pairs with a blank value are dropped, the values of a name keep their order
parse_qs(query) ==
    LET kept == SelectSeq(query, LAMBDA p : p.v # "")
        names == {kept[i].k : i \in 1..Len(kept)}
        valuesOf(n) == LET mine == SelectSeq(kept, LAMBDA p : p.k = n)
                       IN  [i \in 1..Len(mine) |-> mine[i].v]
    IN  [n \in names |-> valuesOf(n)]

\* a slip: the last value of the parameter is taken
_extract_filename_last(file_url) ==
    LET query_params == parse_qs(file_url.query)
    IN  IF HasKey(query_params, "filename")
        THEN query_params["filename"][Len(query_params["filename"])]
        ELSE "downloaded_file"

\* DownloadFilesView._extract_filename
_extract_filename(file_url) ==
    LET query_params == parse_qs(file_url.query)
    IN  IF HasKey(query_params, "filename")
        THEN query_params["filename"][1]
        ELSE "downloaded_file"

\* requests.get followed by raise_for_status: a transport error (status 0: no
\* response) raises, and so does a status from 400 to 599; no other status does
raises(response) ==
    response.status = 0 \/ (400 <= response.status /\ response.status < 600)

\* a slip: a GET that raises is made once more before the loop gives up
RECURSIVE zip_loop_retrying(_, _, _, _)
zip_loop_retrying(file_urls, fetched, i, members) ==
    IF i > Len(file_urls)
    THEN [raised |-> FALSE, members |-> members, gets |-> Len(file_urls)]
    ELSE IF raises(fetched[i])
         THEN [raised |-> TRUE, members |-> members, gets |-> i + 1]
         ELSE zip_loop_retrying(file_urls, fetched, i + 1,
                                Append(members, [name |-> _extract_filename(file_urls[i]),
                                                 content |-> fetched[i].content]))

_create_zip_archive_retrying(file_urls, fetched) ==
    zip_loop_retrying(file_urls, fetched, 1, <<>>)

\* DownloadFilesView._create_zip_archive: fetched[i] is what the GET of
\* file_urls[i] gives.  The loop stops at the first GET that raises.
RECURSIVE zip_loop(_, _, _, _)
zip_loop(file_urls, fetched, i, members) ==
    IF i > Len(file_urls)
    THEN [raised |-> FALSE, members |-> members, gets |-> Len(file_urls)]
    ELSE IF raises(fetched[i])
         THEN [raised |-> TRUE, members |-> members, gets |-> i]
         ELSE zip_loop(file_urls, fetched, i + 1,
                       Append(members, [name |-> _extract_filename(file_urls[i]),
                                        content |-> fetched[i].content]))

_create_zip_archive(file_urls, fetched) == zip_loop(file_urls, fetched, 1, <<>>)

-----------------------------------------------------------------------------
(* Responses *)

\* get_public_resources was not called; status (of the GET's response, -1
\* without a GET) is a history field
NoCall ==
    [called |-> FALSE, key |-> <<>>, hit |-> FALSE, status |-> -1, none |-> FALSE,
     val |-> <<>>, file_type |-> ""]

\* get_token was not called; status (of the POST's response) and token (what
\* get_token returned) are history fields
NoExchange == [called |-> FALSE, status |-> -1, token |-> None]

\* errors: the form fields with a ValidationError; form_error: the form-level
\* error; gets: the outbound HTTP calls the request made; posted: the
\* public_key as posted, in the answer to a Browse request that a session
\* holding a token made and that was answered without a GET; view: the URL
\* name (urls.py) of the view that answered, with its method
NoResp ==
    [to |-> None, view |-> None, kind |-> "none", target |-> None, files |-> <<>>,
     form_error |-> FALSE, errors |-> {}, members |-> <<>>, gets |-> 0,
     posted |-> <<None>>, call |-> NoCall, exchange |-> NoExchange]

redirect(s, name) == [NoResp EXCEPT !.to = s, !.kind = "redirect", !.target = name]

render(s, template) == [NoResp EXCEPT !.to = s, !.kind = "render", !.target = template]

\* DownloadFilesView._build_zip_response
_build_zip_response(s, zip) ==
    [NoResp EXCEPT !.to = s, !.kind = "application/zip",
                   !.target = "attachment; filename=downloaded_files.zip",
                   !.members = zip.members, !.gets = zip.gets]

-----------------------------------------------------------------------------
(* Sessions *)

Sessions == {"s1", "s2"}

NoSession == [client_id |-> None, client_secret |-> None, yandex_disk_token |-> None]

\* YandexDiskService.get_yandex_disk_token; "if not token" is has_token false
has_token(s) == session[s].yandex_disk_token \notin {None, ""}

\* a slip: only the empty string counts as missing
_has_credentials_notempty(client_id, client_secret) ==
    client_id # "" /\ client_secret # ""

\* AuthTokenView._has_credentials
_has_credentials(client_id, client_secret) ==
    client_id \notin {None, ""} /\ client_secret \notin {None, ""}

\* a slip: a failed POST yields a token all the same
get_token_onfailure(response) ==
    IF raises(response)
    THEN "tokA"
    ELSE IF HasKey(response.json, "access_token") /\ response.json.access_token.isstr
         THEN response.json.access_token.v
         ELSE None

\* YandexDiskService.get_token
get_token(response) ==
    IF raises(response)
    THEN None
    ELSE IF HasKey(response.json, "access_token") /\ response.json.access_token.isstr
         THEN response.json.access_token.v
         ELSE None

-----------------------------------------------------------------------------
(* The cache: django.core.cache with its default expiry rule.  An entry is  *)
(* [val, exp]; at (when it was written), src (the response it was parsed   *)
(* from, and for which key) and by (the session that wrote it) are history *)
(* fields no code reads.                                                   *)

\* a slip: "if cached_resources:" for "is not None"
cache_get_truthy(c, cache_key, t) ==
    IF cache_key \in DOMAIN c /\ t < c[cache_key].exp /\ c[cache_key].val # <<>>
    THEN [hit |-> TRUE, val |-> c[cache_key].val]
    ELSE [hit |-> FALSE, val |-> <<>>]

\* cache.get: an entry is returned until its expiry time is reached
cache_get(c, cache_key, t) ==
    IF cache_key \in DOMAIN c /\ t < c[cache_key].exp
    THEN [hit |-> TRUE, val |-> c[cache_key].val]
    ELSE [hit |-> FALSE, val |-> <<>>]

\* a slip: the list is stored without its first entry
cache_set_partial(c, cache_key, resources, timeout, t, src, s) ==
    [k \in DOMAIN c \cup {cache_key} |->
        IF k = cache_key
        THEN [val |-> IF resources = <<>> THEN resources ELSE Tail(resources),
              exp |-> t + timeout, at |-> t, src |-> src, by |-> s]
        ELSE c[k]]

\* cache.set(cache_key, resources, timeout)
cache_set(c, cache_key, resources, timeout, t, src, s) ==
    [k \in DOMAIN c \cup {cache_key} |->
        IF k = cache_key
        THEN [val |-> resources, exp |-> t + timeout, at |-> t, src |-> src, by |-> s]
        ELSE c[k]]

\* a slip: the parsed list is returned and never stored
get_public_resources_fetch_unsaved(c, cache_key, response, t, s) ==
    IF raises(response)
    THEN [none |-> TRUE, val |-> <<>>, cache |-> c]
    ELSE [none |-> FALSE, val |-> _parse_public_resources(response.json), cache |-> c]

\* get_public_resources after a cache miss: the GET has given `response`
get_public_resources_fetch(c, cache_key, response, t, s) ==
    IF raises(response)
    THEN [none |-> TRUE, val |-> <<>>, cache |-> c]
    ELSE LET resources == _parse_public_resources(response.json)
         IN  [none |-> FALSE, val |-> resources,
              cache |-> cache_set(c, cache_key, resources, TTL, t,
                                  [key |-> cache_key, status |-> response.status,
                                   data |-> response.json], s)]

-----------------------------------------------------------------------------
(* Requests in flight and history *)

\* view: the view whose outbound call the session waits in
Idle == [pc |-> "idle", view |-> "", key |-> <<>>, file_type |-> "", start |-> 0]

NoHist == -1

Max(a, b) == IF a >= b THEN a ELSE b

-----------------------------------------------------------------------------
(* AuthUrlView *)

AuthUrlGet(s) ==
    /\ resp' = [render(s, "disk/auth_url.html") EXCEPT !.view = "auth_url GET"]
    /\ UNCHANGED <<session, cache, now, req, hist, arg, out>>

\* AuthForm: both fields are required
AuthForm_is_valid(client_id, client_secret) == client_id # "" /\ client_secret # ""

\* a slip: new credentials drop the token got with the old ones
_save_credentials_fresh(sess, client_id, client_secret) ==
    [sess EXCEPT !.client_id = client_id, !.client_secret = client_secret,
                 !.yandex_disk_token = None]

\* AuthUrlView._save_credentials_to_session
_save_credentials_to_session(sess, client_id, client_secret) ==
    [sess EXCEPT !.client_id = client_id, !.client_secret = client_secret]

AuthUrlPost(s, client_id, client_secret) ==
    /\ IF AuthForm_is_valid(client_id, client_secret)
       THEN /\ session' = [session EXCEPT
                             ![s] = _save_credentials_to_session(@, client_id, client_secret)]
            /\ resp' = [redirect(s, "auth_token") EXCEPT !.view = "auth_url POST"]
       ELSE /\ resp' = [render(s, "disk/auth_url.html") EXCEPT
                          !.view = "auth_url POST",
                          !.errors = (IF client_id = "" THEN {"client_id"} ELSE {})
                                     \cup (IF client_secret = "" THEN {"client_secret"} ELSE {})]
            /\ UNCHANGED session
    /\ UNCHANGED <<cache, now, req, hist, arg, out>>

-----------------------------------------------------------------------------
(* AuthTokenView *)

AuthTokenGet(s) ==
    /\ resp' = [render(s, "disk/auth_token.html") EXCEPT !.view = "auth_token GET"]
    /\ UNCHANGED <<session, cache, now, req, hist, arg, out>>

\* AuthTokenView.post; `response` is what the POST to the token endpoint
\* gives when it is made
AuthTokenPost(s, code, response) ==
    /\ IF code = ""
       THEN /\ resp' = [render(s, "disk/auth_token.html") EXCEPT
                          !.view = "auth_token POST", !.errors = {"code"}]
            /\ UNCHANGED session
       ELSE IF ~_has_credentials(session[s].client_id, session[s].client_secret)
            THEN /\ resp' = [redirect(s, "auth_url") EXCEPT !.view = "auth_token POST"]
                 /\ UNCHANGED session
            ELSE LET token == get_token(response)
                     exchange == [called |-> TRUE, status |-> response.status,
                                  token |-> token]
                 IN  IF token \notin {None, ""}
                     THEN /\ session' = [session EXCEPT ![s].yandex_disk_token = token]
                          /\ resp' = [redirect(s, "home") EXCEPT
                                        !.view = "auth_token POST", !.gets = 1,
                                        !.exchange = exchange]
                     ELSE /\ resp' = [render(s, "disk/auth_token.html") EXCEPT
                                        !.view = "auth_token POST", !.form_error = TRUE,
                                        !.gets = 1, !.exchange = exchange]
                          /\ UNCHANGED session
    /\ UNCHANGED <<cache, now, req, hist, arg, out>>

-----------------------------------------------------------------------------
(* HomeView *)

\* a slip: the page is shown without a look at the token
HomeGet_open(s) ==
    /\ resp' = [render(s, "disk/home.html") EXCEPT !.view = "home GET"]
    /\ UNCHANGED <<session, cache, now, req, hist, arg, out>>

\* HomeView.get
HomeGet(s) ==
    /\ resp' = [(IF ~has_token(s) THEN redirect(s, "auth_url")
                                  ELSE render(s, "disk/home.html"))
                 EXCEPT !.view = "home GET"]
    /\ UNCHANGED <<session, cache, now, req, hist, arg, out>>

\* a slip: when the resolution fails the entries of the last answer stay
home_response_stale(s, result, file_type) ==
    IF ~result.none
    THEN [render(s, "disk/home.html") EXCEPT
            !.view = "home POST", !.files = _filter_files(result.val, file_type)]
    ELSE [render(s, "disk/home.html") EXCEPT
            !.view = "home POST", !.form_error = TRUE, !.files = resp.files]

\* HomeView.post from the result of get_public_resources to the response
home_response(s, result, file_type) ==
    IF ~result.none
    THEN [render(s, "disk/home.html") EXCEPT
            !.view = "home POST", !.files = _filter_files(result.val, file_type)]
    ELSE [render(s, "disk/home.html") EXCEPT !.view = "home POST", !.form_error = TRUE]

\* HomeView.post up to the return of get_public_resources on a cache hit, or
\* up to its GET on a miss
BrowseBegin(s, public_key, file_type) ==
    /\ req[s].pc = "idle"
    /\ IF ~has_token(s)
       THEN /\ resp' = [redirect(s, "auth_url") EXCEPT !.view = "home POST"]
            /\ UNCHANGED req
       ELSE LET form == PublicLinkForm(public_key, file_type)
            IN  IF ~form.is_valid
                THEN /\ resp' = [render(s, "disk/home.html") EXCEPT
                                   !.view = "home POST",
                                   !.errors = form.errors, !.posted = public_key]
                     /\ UNCHANGED req
                ELSE LET cache_key == _generate_cache_key(form.public_key)
                         cached_resources == cache_get(cache, cache_key, now)
                     IN  IF cached_resources.hit
                         THEN /\ resp' = [home_response(s, [none |-> FALSE,
                                                            val |-> cached_resources.val],
                                                        form.file_type)
                                          EXCEPT !.posted = public_key,
                                                 !.call = [called |-> TRUE, key |-> cache_key,
                                                           hit |-> TRUE, status |-> -1,
                                                           none |-> FALSE,
                                                           val |-> cached_resources.val,
                                                           file_type |-> form.file_type]]
                              /\ UNCHANGED req
                         ELSE /\ req' = [req EXCEPT ![s] =
                                           [pc |-> "fetching", view |-> "home POST", key |-> cache_key,
                                            file_type |-> form.file_type, start |-> now]]
                              /\ UNCHANGED resp
    /\ UNCHANGED <<session, cache, now, hist, arg, out>>

\* the rest of HomeView.post on a miss: the GET gives `response`
BrowseFetched(s, response) ==
    /\ req[s].pc = "fetching"
    /\ LET r == req[s]
           result == get_public_resources_fetch(cache, r.key, response, now, s)
       IN  /\ cache' = result.cache
           /\ resp' = [home_response(s, result, r.file_type)
                       EXCEPT !.gets = 1,
                              !.call = [called |-> TRUE, key |-> r.key, hit |-> FALSE,
                                        status |-> response.status, none |-> result.none,
                                        val |-> result.val, file_type |-> r.file_type]]
           /\ hist' = [hist EXCEPT ![r.key] =
                         IF raises(response) THEN @ ELSE Max(@, r.start)]
    /\ req' = [req EXCEPT ![s] = Idle]
    /\ UNCHANGED <<session, now, arg, out>>

-----
(* DownloadFilesView *)

\* a slip: an empty list of files is answered like a missing token
DownloadPost_emptydenied(s, file_urls, fetched) ==
    /\ resp' = [(IF ~has_token(s) \/ file_urls = <<>>
                 THEN redirect(s, "auth_url")
                 ELSE LET zip == _create_zip_archive(file_urls, fetched)
                      IN  IF zip.raised
                          THEN [redirect(s, "home") EXCEPT !.gets = zip.gets]
                          ELSE _build_zip_response(s, zip))
                 EXCEPT !.view = "download_files POST"]
    /\ UNCHANGED <<session, cache, now, req, hist, arg, out>>

\* DownloadFilesView.post; fetched[i] is what the GET of file_urls[i] gives
DownloadPost(s, file_urls, fetched) ==
    /\ resp' = [(IF ~has_token(s)
                 THEN redirect(s, "auth_url")
                 ELSE IF file_urls = <<>>
                      THEN redirect(s, "home")
                      ELSE LET zip == _create_zip_archive(file_urls, fetched)
                           IN  IF zip.raised
                               THEN [redirect(s, "home") EXCEPT !.gets = zip.gets]
                               ELSE _build_zip_response(s, zip))
                 EXCEPT !.view = "download_files POST"]
    /\ UNCHANGED <<session, cache, now, req, hist, arg, out>>

-----------------------------------------------------------------------------
(* Outbound calls that are never answered *)

\* requests.post and requests.get are called without a timeout: when the
\* other end accepts the connection and never answers, the call does not
\* return and the request of s that made it stays blocked in it.  The call
\* is the GET of a Browse request that missed the cache, the POST of a
\* callback with a code and stored credentials, or a GET of a Download
\* request with a token and a non-empty list.
NeverAnswered(s, view) ==
    /\ CASE view = "home POST" -> req[s].pc = "fetching"
         [] view = "auth_token POST" ->
              /\ req[s].pc = "idle"
              /\ _has_credentials(session[s].client_id, session[s].client_secret)
         [] view = "download_files POST" -> req[s].pc = "idle" /\ has_token(s)
         [] OTHER -> FALSE
    /\ req' = [req EXCEPT ![s] = [Idle EXCEPT !.pc = "blocked", !.view = view]]
    /\ UNCHANGED <<session, cache, now, resp, hist, arg, out>>

-----------------------------------------------------------------------------
(* Time *)

Tick ==
    /\ \E d \in TickLens : now + d <= MaxNow /\ now' = now + d
    /\ UNCHANGED <<session, cache, req, resp, hist, arg, out>>

-----------------------------------------------------------------------------
(* Inputs *)

LinkA == <<"https://disk.yandex.ru/", "d/aaa">>
LinkB == <<"https://disk.yandex.ru/", "d/bbb">>
LinkPadded == <<Space, "https://disk.yandex.ru/", "d/aaa", Space>>
LinkHttp == <<"http://disk.yandex.ru/", "d/aaa">>
LinkOther == <<"https://example.com/", "https://disk.yandex.ru/", "d/aaa">>
LinkBroken == <<"https://disk.yandex.ru/", "d", Space, "aaa">>

Links == {LinkA, LinkB, LinkPadded, LinkHttp, LinkOther, LinkBroken, <<>>}

\* every key get_public_resources can be called with
CacheKeys ==
    {_generate_cache_key(PublicLinkForm(l, ALL).public_key) :
        l \in {x \in Links : PublicLinkForm(x, ALL).is_valid}}

\* what a browser can post as file_type: a choice, nothing, or something else
\* (the name "ALL" is the select's initial value and is not a choice)
FileTypeInputs == FileType \cup {"", "ALL"}

ItemPng == [name |-> "cat.png", type |-> "file", mime_type |-> <<"image/", "png">>]
ItemPdf == [name |-> "doc.pdf", type |-> "file", mime_type |-> <<"application/", "pdf">>]
ItemMp3 == [name |-> "song.mp3", type |-> "file", mime_type |-> <<"audio/", "mpeg">>]
ItemMp4 == [name |-> "clip.mp4", type |-> "file", mime_type |-> <<"video/", "mp4">>]
ItemTxt == [name |-> "note.txt", type |-> "file", mime_type |-> <<"text/", "plain">>]
ItemRaw == [name |-> "blob", type |-> "file"]
ItemDir == [name |-> "photos", type |-> "dir"]

Items == {ItemPng, ItemPdf, ItemMp3, ItemMp4, ItemTxt, ItemRaw, ItemDir}

\* provider responses the handlers are run on
FolderData == [name |-> "shared", type |-> "dir", embedded |-> [items |-> <<ItemPng, ItemDir>>]]
FileData == [name |-> "song.mp3", type |-> "file", mime_type |-> <<"audio/", "mpeg">>]
EmptyData == [name |-> "shared", type |-> "dir", embedded |-> [items |-> <<>>]]

Ok(json) == [status |-> 200, json |-> json]
\* 300 Multiple Choices has no Location for requests to follow: it is returned
MultipleChoices(json) == [status |-> 300, json |-> json]
HttpError == [status |-> 404]
TransportError == [status |-> 0]

UpstreamResponses ==
    {Ok(FolderData), Ok(FileData), Ok(EmptyData), MultipleChoices(FileData),
     HttpError, TransportError}

ClientIds == {"idA", "idB", ""}
ClientSecrets == {"secA", ""}
Codes == {"code1", ""}

TokenResponses ==
    {Ok([access_token |-> [isstr |-> TRUE, v |-> "tokA"]]),
     Ok([access_token |-> [isstr |-> TRUE, v |-> "tokB"]]),
     Ok([access_token |-> [isstr |-> TRUE, v |-> ""]]),
     Ok([access_token |-> [isstr |-> FALSE, v |-> "42"]]),
     Ok([error |-> "invalid_grant"]),
     MultipleChoices([access_token |-> [isstr |-> TRUE, v |-> "tokB"]]),
     HttpError, TransportError}

Param(k, v) == [k |-> k, v |-> v]

UrlCat == [path |-> "/a", query |-> <<Param("filename", "cat.png")>>]
UrlDog == [path |-> "/b", query |-> <<Param("disposition", "attachment"), Param("filename", "dog.png")>>]
UrlBare == [path |-> "/c", query |-> <<>>]
UrlOther == [path |-> "/d", query |-> <<Param("uid", "0")>>]
UrlTwice == [path |-> "/e", query |-> <<Param("filename", "one.txt"), Param("filename", "two.txt")>>]
UrlBlank == [path |-> "/f", query |-> <<Param("filename", "")>>]
UrlBlankFirst == [path |-> "/g", query |-> <<Param("filename", ""), Param("filename", "late.txt")>>]

FileUrls == {UrlCat, UrlDog, UrlBare, UrlOther, UrlTwice, UrlBlank, UrlBlankFirst}

FileResponses ==
    {[status |-> 200, content |-> "bytes1"], [status |-> 200, content |-> "bytes2"],
     [status |-> 300, content |-> "choices"], HttpError, TransportError}

-----------------------------------------------------------------------------
(* The system *)

Init ==
    /\ session = [s \in Sessions |-> NoSession]
    /\ cache = <<>>
    /\ now = 0
    /\ req = [s \in Sessions |-> Idle]
    /\ resp = NoResp
    /\ hist = [k \in CacheKeys |-> NoHist]
    /\ arg = None
    /\ out = NoOut

\* The handlers, run by the sessions of SS on the given inputs
System(SS, ids, secrets, codes, tokenResponses, links, fileTypes, upstream, urlLists, fileResponses) ==
    \/ \E s \in SS : AuthUrlGet(s)
    \/ \E s \in SS, client_id \in ids, client_secret \in secrets :
          AuthUrlPost(s, client_id, client_secret)
    \/ \E s \in SS : AuthTokenGet(s)
    \/ \E s \in SS, code \in codes, response \in tokenResponses :
          AuthTokenPost(s, code, response)
    \/ \E s \in SS : HomeGet(s)
    \/ \E s \in SS, public_key \in links, file_type \in fileTypes :
          BrowseBegin(s, public_key, file_type)
    \/ \E s \in SS, response \in upstream : BrowseFetched(s, response)
    \/ \E s \in SS, file_urls \in urlLists :
          \E fetched \in [1..Len(file_urls) -> fileResponses] :
              DownloadPost(s, file_urls, fetched)

\* Two sessions go through the authorization, browse and download on inputs
\* that reach every branch of every handler.  No time passes: what the
\* passing of time changes is the cache, which SpecCache is about.
DownloadLists == {<<>>, <<UrlCat>>, <<UrlCat, UrlBare>>}

DownloadResponses == {[status |-> 200, content |-> "bytes1"], HttpError}

Next ==
    System(Sessions, ClientIds, ClientSecrets, Codes, TokenResponses,
           {LinkA, LinkOther}, {ALL, ""}, {Ok(FolderData), HttpError},
           DownloadLists, DownloadResponses)

Spec == Init /\ [][Next]_vars

-----------------------------------------------------------------------------
(* Browsing: both sessions have been through the authorization (s1 holds   *)
(* tokA, s2 holds tokB) and resolve links concurrently while time passes.  *)

Authorized(token) ==
    [client_id |-> "idA", client_secret |-> "secA", yandex_disk_token |-> token]

InitCache ==
    /\ session = [s \in Sessions |-> Authorized(IF s = "s1" THEN "tokA" ELSE "tokB")]
    /\ cache = <<>>
    /\ now = 0
    /\ req = [s \in Sessions |-> Idle]
    /\ resp = NoResp
    /\ hist = [k \in CacheKeys |-> NoHist]
    /\ arg = None
    /\ out = NoOut

\* the category the sessions browse by
BrowseTypes == {IMAGES}

NextCache ==
    \/ \E s \in Sessions, public_key \in Links, file_type \in BrowseTypes :
          BrowseBegin(s, public_key, file_type)
    \/ \E s \in Sessions, response \in UpstreamResponses : BrowseFetched(s, response)
    \/ Tick

SpecCache == InitCache /\ [][NextCache]_vars

-----------------------------------------------------------------------------
(* Completion: both sessions hold a token and make requests whose outbound *)
(* calls are answered or not.  A handler that can take a step does take    *)
(* it, and a response that has come in is handled; no fairness speaks of   *)
(* the other end answering, for the code sets no timeout on its calls.     *)

NextLive ==
    \/ \E s \in Sessions : HomeGet(s)
    \/ \E s \in Sessions, response \in {Ok([access_token |-> [isstr |-> TRUE, v |-> "tokA"]]),
                                         TransportError} :
          AuthTokenPost(s, "code1", response)
    \/ \E s \in Sessions, public_key \in {LinkA, LinkOther} : BrowseBegin(s, public_key, ALL)
    \/ \E s \in Sessions, response \in {Ok(FolderData), TransportError} :
          BrowseFetched(s, response)
    \/ \E s \in Sessions, fetched \in [1..1 -> DownloadResponses] :
          DownloadPost(s, <<UrlCat>>, fetched)
    \/ \E s \in Sessions, view \in {"home POST", "auth_token POST", "download_files POST"} :
          NeverAnswered(s, view)

SpecLive ==
    /\ InitCache
    /\ [][NextLive]_vars
    /\ WF_vars(NextLive)
    /\ \A s \in Sessions : WF_vars(\E response \in {Ok(FolderData), TransportError} :
                                       BrowseFetched(s, response))

-----------------------------------------------------------------------------
(* Downloading.  The answer to a Download request depends on the session's *)
(* token, the URLs posted and what their GETs give, and on nothing else:   *)
(* one request, drawn from a bounded set, is posted by s1, which has been  *)
(* through the authorization, or by s2, which has not.                     *)

DownloadRequests ==
    UNION {[file_urls : {file_urls}, fetched : [1..Len(file_urls) -> FileResponses]] :
              file_urls \in SeqsUpTo(FileUrls, MaxUrls)}

InitDownload ==
    /\ session = [s \in Sessions |-> IF s = "s1" THEN Authorized("tokA") ELSE NoSession]
    /\ cache = <<>>
    /\ now = 0
    /\ req = [s \in Sessions |-> Idle]
    /\ resp = NoResp
    /\ hist = [k \in CacheKeys |-> NoHist]
    /\ arg \in DownloadRequests
    /\ out = NoOut

Download ==
    /\ resp = NoResp
    /\ \E s \in Sessions : DownloadPost(s, arg.file_urls, arg.fetched)

SpecDownload == InitDownload /\ [][Download]_vars

-----------------------------------------------------------------------------
(* The pure functions, each applied once to an input of a bounded set *)

Idle0 ==
    /\ session = [s \in Sessions |-> NoSession]
    /\ cache = <<>>
    /\ now = 0
    /\ req = [s \in Sessions |-> Idle]
    /\ resp = NoResp
    /\ hist = [k \in CacheKeys |-> NoHist]
    /\ out = NoOut

Apply(value) ==
    /\ ~out.done
    /\ out' = [done |-> TRUE, value |-> value]
    /\ UNCHANGED <<session, cache, now, req, resp, hist, arg>>

\* provider responses: with or without a type, a MIME type, an _embedded
\* object, and items in it
Optional(field, values) == {<<>>} \cup {field :> v : v \in values}

ProviderResponses ==
    {[name |-> "shared"] @@ ty @@ mt @@ emb :
        ty \in Optional("type", {"file", "dir"}),
        mt \in Optional("mime_type", {<<"audio/", "mpeg">>}),
        emb \in Optional("embedded",
                         {[total |-> 0]}
                         \cup {[items |-> l] : l \in SeqsUpTo({ItemPng, ItemMp3, ItemDir}, MaxItems)})}

InitParse == Idle0 /\ arg \in ProviderResponses

Parse == Apply(_parse_public_resources(arg))

SpecParse == InitParse /\ [][Parse]_vars

InitFilter ==
    /\ Idle0
    /\ arg \in [files : SeqsUpTo(Items, MaxItems), file_type : FileType \cup {""}]

Filter == Apply(_filter_files(arg.files, arg.file_type))

SpecFilter == InitFilter /\ [][Filter]_vars

-----------------------------------------------------------------------------
(* Properties of the resource cache (SpecCache) *)

\* s begins a get_public_resources call for cache_key that goes to the provider
GoesUpstream(s, cache_key) ==
    req[s].pc = "idle" /\ req'[s].pc = "fetching" /\ req'[s].key = cache_key

\* s makes a get_public_resources call for cache_key that returns at once
ReturnsAtOnce(s, cache_key) ==
    /\ req[s].pc = "idle" /\ req' = req
    /\ resp' # resp /\ resp'.to = s /\ resp'.call.called /\ resp'.call.key = cache_key

\* the last finished request was a get_public_resources call that issued a GET
LastCallWentUpstream == resp.call.called /\ resp.gets = 1

\* C1 as stated: if get_public_resources is called twice for one link within
\* 300 seconds, the second call issues no GET when the first has issued one.
\* (While now < 300 every two calls are less than 300 seconds apart.)
C1_AtMostOneGet ==
    [][\A s \in Sessions :
         (now < TTL /\ LastCallWentUpstream) => ~GoesUpstream(s, resp.call.key)]_vars

\* C1 amended: if a call of get_public_resources for a link has returned from
\* a successful GET, every call for that link that begins less than 300
\* seconds after the start of that call is a cache hit and issues no GET.
C1_HitAfterSuccess ==
    [][\A s \in Sessions, k \in CacheKeys :
         (hist[k] >= 0 /\ now - hist[k] < TTL)
         => /\ ~GoesUpstream(s, k)
            /\ ReturnsAtOnce(s, k) => (resp'.call.hit /\ resp'.gets = 0)]_vars

\* a second call, 150 seconds after a first one that fetched, was a cache hit
C1_Witness ==
    /\ resp.call.called /\ resp.call.hit /\ resp.gets = 0
    /\ hist[resp.call.key] >= 0
    /\ now > hist[resp.call.key] /\ now - hist[resp.call.key] < TTL

\* a GET that gave no response (status 0) or a status outside 2xx
NotSuccess(response) ==
    response.status = 0 \/ response.status < 200 \/ response.status >= 300

\* C2: when the GET fails (transport error or a status that is not 2xx),
\* get_public_resources returns None, not the empty list (the response then
\* carries the form-level error, which an empty result does not), and
\* neither step of the call changes the cache.
C2_FailureLeavesCache ==
    [][\A s \in Sessions :
         /\ (req[s].pc = "idle" /\ req'[s].pc = "fetching") => cache' = cache
         /\ (req[s].pc = "fetching" /\ req'[s].pc = "idle")
            => /\ NotSuccess(resp'.call)
                  => /\ cache' = cache
                     /\ resp'.call.none /\ resp'.form_error /\ resp'.files = <<>>
               /\ ~NotSuccess(resp'.call) => (~resp'.call.none /\ ~resp'.form_error)]_vars

\* a GET answered 300 was taken for a success: its body is in the cache
C2_Witness ==
    /\ resp.call.called /\ resp.call.status = 300 /\ ~resp.call.none
    /\ resp.call.key \in DOMAIN cache
    /\ cache[resp.call.key].src.status = 300

\* What the code does keep: when the GET raises (transport error, or a
\* status from 400 to 599), None is returned and the cache is as it was.
RaisedLeavesCache ==
    [][\A s \in Sessions :
         (req[s].pc = "fetching" /\ req'[s].pc = "idle" /\ raises(resp'.call))
         => /\ cache' = cache
            /\ resp'.call.none /\ resp'.form_error /\ resp'.files = <<>>]_vars

\* the entry list of a provider response, as section 4.2 of the specification
\* words it
EntryList(data) ==
    CASE HasKey(data, "embedded") /\ HasKey(data.embedded, "items") -> data.embedded.items
      [] ~(HasKey(data, "embedded") /\ HasKey(data.embedded, "items"))
         /\ HasKey(data, "type") /\ data.type = "file" -> <<data>>
      [] OTHER -> <<>>

OkData == {r.json : r \in {x \in UpstreamResponses : ~raises(x)}}

\* C3: whatever the interleaving of concurrent calls, a cache entry is the
\* complete entry list of one successful provider response for its own link.
C3_EntryIsOneResponse ==
    \A k \in DOMAIN cache :
        /\ cache[k].src.key = k
        /\ cache[k].src.data \in OkData
        /\ cache[k].val = EntryList(cache[k].src.data)

\* a session is still waiting for the provider for a link that the other
\* session, which started no earlier, has already written (it will overwrite)
C3_Witness ==
    \E s \in Sessions :
        /\ req[s].pc = "fetching"
        /\ req[s].key \in DOMAIN cache
        /\ cache[req[s].key].by # s
        /\ cache[req[s].key].val # <<>>
        /\ req[s].start <= cache[req[s].key].at

\* C4: less than 300 seconds after a session has written the entry of a
\* link, a call for that link by another session returns the cached list as
\* it is and issues no GET, whatever token that session holds.
C4_SharedAcrossSessions ==
    [][\A s \in Sessions, k \in CacheKeys :
         (k \in DOMAIN cache /\ cache[k].by # s /\ now - cache[k].at < TTL)
         => /\ ~GoesUpstream(s, k)
            /\ ReturnsAtOnce(s, k)
               => /\ resp'.call.hit /\ ~resp'.call.none
                  /\ resp'.call.val = cache[k].val
                  /\ resp'.gets = 0
                  /\ cache' = cache]_vars

\* a session got from the cache what a session with another token had written
C4_Witness ==
    /\ resp.call.called /\ resp.call.hit
    /\ resp.call.key \in DOMAIN cache
    /\ cache[resp.call.key].by # resp.to
    /\ session[cache[resp.call.key].by].yandex_disk_token
         # session[resp.to].yandex_disk_token
    /\ resp.call.val = cache[resp.call.key].val
    /\ resp.call.val # <<>>

\* a URL: a scheme and a host, and no whitespace
WellFormedUrl(v) == v # <<>> /\ Head(v) \in Schemes /\ \A i \in 1..Len(v) : v[i] # Space

\* s posts a Browse request with link l, which is answered at once, or goes
\* upstream with the link as the form cleaned it
Posts(s, l) ==
    /\ req[s].pc = "idle"
    /\ \/ req'[s].pc = "fetching" /\ req'[s].key = _generate_cache_key(strip(l))
       \/ req' = req /\ resp' # resp /\ resp'.to = s /\ resp'.posted = l

\* the answer is a ValidationError on the link, and no entry list
Rejected ==
    "public_key" \in resp'.errors /\ resp'.kind = "render" /\ resp'.files = <<>>

\* C8 as stated: a link is accepted if and only if it starts with
\* https://disk.yandex.ru/ (surrounding whitespace apart).
C8_AcceptedIffPrefix ==
    [][\A s \in Sessions, l \in Links :
         Posts(s, l)
         => (~(req' = req /\ Rejected) <=> startswith(strip(l), YANDEX_PREFIX))]_vars

\* C8 amended: a link posted by a session that holds a token is accepted if
\* and only if, with the surrounding whitespace stripped, it is a well-formed
\* URL that starts with https://disk.yandex.ru/; every other link is rejected
\* with a ValidationError and without a GET, a cache read or a cache write.
C8_AcceptedIffUrlWithPrefix ==
    [][\A s \in Sessions, l \in Links :
         Posts(s, l)
         => IF WellFormedUrl(strip(l)) /\ startswith(strip(l), YANDEX_PREFIX)
            THEN \/ GoesUpstream(s, _generate_cache_key(strip(l)))
                 \/ /\ req' = req /\ ~Rejected
                    /\ resp'.call.called /\ resp'.call.hit /\ resp'.errors = {}
                    /\ resp'.call.key = _generate_cache_key(strip(l))
            ELSE /\ req' = req /\ Rejected
                 /\ resp'.gets = 0 /\ ~resp'.call.called
                 /\ cache' = cache]_vars

\* a link of another host was rejected while the cache held entries
C8_Witness ==
    /\ resp.to \in Sessions /\ resp.posted = LinkOther
    /\ "public_key" \in resp.errors /\ ~resp.call.called /\ resp.gets = 0
    /\ DOMAIN cache # {}
    /\ \A s \in Sessions : req[s].pc = "idle"

-----------------------------------------------------------------------------
(* Properties of _parse_public_resources (SpecParse) *)

HasItems(data) == HasKey(data, "embedded") /\ HasKey(data.embedded, "items")

IsFile(data) == HasKey(data, "type") /\ data.type = "file"

\* C5: the result is the embedded items when there are any (whatever the
\* type), else the response itself in a one-element list when its type is
\* file, else the empty list.
C5_ThreeOrderedCases ==
    out.done =>
        /\ HasItems(arg) => out.value = arg.embedded.items
        /\ (~HasItems(arg) /\ IsFile(arg)) => out.value = <<arg>>
        /\ (~HasItems(arg) /\ ~IsFile(arg)) => out.value = <<>>

\* a response of type file with embedded items gave its items
C5_Witness ==
    /\ out.done /\ HasItems(arg) /\ IsFile(arg)
    /\ Len(arg.embedded.items) = 2
    /\ out.value = arg.embedded.items

-----------------------------------------------------------------------------
(* Properties of _filter_files (SpecFilter) *)

\* C6: for the category All the result is the input, element by element.
C6_AllIsIdentity ==
    (out.done /\ arg.file_type = ALL)
    => /\ Len(out.value) = Len(arg.files)
       /\ \A i \in 1..Len(arg.files) : out.value[i] = arg.files[i]

\* a folder and a file without a MIME type passed through
C6_Witness ==
    /\ out.done /\ arg.file_type = ALL
    /\ arg.files = <<ItemDir, ItemRaw>>
    /\ out.value = <<ItemDir, ItemRaw>>

\* the prefixes the specification registers
RegisteredPrefix ==
    (DOCUMENTS :> "application/") @@ (IMAGES :> "image/") @@ (VIDEO :> "video/")
        @@ (AUDIO :> "audio/")

\* the entry has a MIME type and it starts with the category's prefix
InCategory(f, category) ==
    /\ "mime_type" \in DOMAIN f
    /\ f.mime_type # <<>>
    /\ f.mime_type[1] = RegisteredPrefix[category]

\* the i-th smallest element of a set of numbers
Nth(S, i) == CHOOSE x \in S : Cardinality({y \in S : y < x}) = i - 1

\* C7: for Documents, Images, Video and Audio the result is exactly the
\* entries of the category, in their input order.
C7_ExactlyTheCategory ==
    (out.done /\ arg.file_type \in DOMAIN RegisteredPrefix)
    => LET kept == {i \in 1..Len(arg.files) : InCategory(arg.files[i], arg.file_type)}
       IN  /\ Len(out.value) = Cardinality(kept)
           /\ \A j \in 1..Len(out.value) : out.value[j] = arg.files[Nth(kept, j)]

\* a folder was left out and the document after it kept
C7_Witness ==
    /\ out.done /\ arg.file_type = DOCUMENTS
    /\ arg.files = <<ItemDir, ItemPdf>>
    /\ out.value = <<ItemPdf>>

-----------------------------------------------------------------------------
(* Properties of the Download request (SpecDownload) *)

Answered == resp.to \in Sessions /\ has_token(resp.to) /\ arg.file_urls # <<>>

SomeFetchFails == \E i \in 1..Len(arg.file_urls) : NotSuccess(arg.fetched[i])

SomeFetchRaises == \E i \in 1..Len(arg.file_urls) : raises(arg.fetched[i])

\* C9: when the GET of any of the URLs fails (transport error or a status
\* that is not 2xx) the answer is a redirect to the browse view and carries
\* no archive.
C9_FailureAborts ==
    (Answered /\ SomeFetchFails)
    => /\ resp.kind = "redirect" /\ resp.target = "home"
       /\ resp.members = <<>>

\* the second of two GETs was answered 300 and its body is the second member
\* of the archive returned
C9_Witness ==
    /\ Answered /\ Len(arg.file_urls) = 2
    /\ ~NotSuccess(arg.fetched[1]) /\ arg.fetched[2].status = 300
    /\ resp.kind = "application/zip"
    /\ Len(resp.members) = 2
    /\ resp.members[2].content = arg.fetched[2].content

\* What the code does keep: when a GET raises (transport error, or a status
\* from 400 to 599), the answer is the redirect and carries no archive.
RaisedAborts ==
    (Answered /\ SomeFetchRaises)
    => /\ resp.kind = "redirect" /\ resp.target = "home"
       /\ resp.members = <<>>

\* the archive has one member per URL, in input order, with the payloads
\* fetched and the names given by name_of
ArchiveOf(name_of(_)) ==
    /\ resp.kind = "application/zip"
    /\ Len(resp.members) = Len(arg.file_urls)
    /\ \A i \in 1..Len(arg.file_urls) :
          /\ resp.members[i].content = arg.fetched[i].content
          /\ resp.members[i].name = name_of(arg.file_urls[i])

\* the values of the filename parameter, in order
FilenameValues(file_url) ==
    LET mine == SelectSeq(file_url.query, LAMBDA p : p.k = "filename")
    IN  [i \in 1..Len(mine) |-> mine[i].v]

\* C10 as stated: the first value of filename, downloaded_file without one
FirstValue(file_url) ==
    IF FilenameValues(file_url) = <<>>
    THEN "downloaded_file"
    ELSE FilenameValues(file_url)[1]

C10_NamedByFirstValue ==
    (Answered /\ ~SomeFetchFails) => ArchiveOf(FirstValue)

\* C10 amended: the first value of filename that is not blank,
\* downloaded_file when there is none
FirstNonBlankValue(file_url) ==
    LET given == SelectSeq(FilenameValues(file_url), LAMBDA v : v # "")
    IN  IF given = <<>> THEN "downloaded_file" ELSE given[1]

C10_NamedByFirstNonBlankValue ==
    (Answered /\ ~SomeFetchFails) => ArchiveOf(FirstNonBlankValue)

\* two URLs without a filename gave two members named downloaded_file
C10_Witness ==
    /\ Answered /\ ~SomeFetchFails
    /\ arg.file_urls = <<UrlBare, UrlOther>>
    /\ Len(resp.members) = 2
    /\ resp.members[1].name = "downloaded_file"
    /\ resp.members[2].name = "downloaded_file"
    /\ resp.members[1].content = arg.fetched[1].content
    /\ resp.members[2].content = arg.fetched[2].content

\* C11: a Download request with an empty list of URLs issues no fetch and
\* is answered without an error: by the redirect to the browse view (the
\* no-op result) or by an empty archive.
C11_EmptyListIsNoOp ==
    (resp.to \in Sessions /\ has_token(resp.to) /\ arg.file_urls = <<>>)
    => /\ resp.gets = 0
       /\ resp.members = <<>>
       /\ ~resp.form_error /\ resp.errors = {}
       /\ \/ resp.kind = "redirect" /\ resp.target = "home"
          \/ resp.kind = "application/zip"

\* the session that holds a token posted an empty list and was sent to home
C11_Witness ==
    /\ resp.to \in Sessions /\ has_token(resp.to) /\ arg.file_urls = <<>>
    /\ resp.view = "download_files POST"
    /\ resp.kind = "redirect" /\ resp.target = "home" /\ resp.gets = 0

-----------------------------------------------------------------------------
(* Properties of the sessions (Spec) *)

\* the session has stored a client_id and a client_secret
Stored(s) ==
    /\ session[s].client_id # None /\ session[s].client_id # ""
    /\ session[s].client_secret # None /\ session[s].client_secret # ""

\* C12: once a session has stored client_id and client_secret, no request
\* changes the stored values.
C12_CredentialsImmutable ==
    [][\A s \in Sessions :
         Stored(s) => /\ session'[s].client_id = session[s].client_id
                      /\ session'[s].client_secret = session[s].client_secret]_vars

\* s has just been answered by the view of that name
AnsweredBy(s, view) == resp'.to = s /\ resp'.view = view

\* the exchange failed: the POST raised, or its response had no string
\* access_token
FailedExchange(exchange) == raises(exchange) \/ exchange.token = None

\* C13: a callback whose exchange fails leaves the session as it was, and a
\* session's token changes only in a callback of that session whose exchange
\* returned a non-empty string, which is the token stored.
C13_FailedExchangeStoresNothing ==
    [][\A s \in Sessions :
         /\ (AnsweredBy(s, "auth_token POST") /\ resp'.exchange.called
               /\ FailedExchange(resp'.exchange))
            => session' = session
         /\ session'[s].yandex_disk_token # session[s].yandex_disk_token
            => /\ AnsweredBy(s, "auth_token POST")
               /\ resp'.exchange.called /\ ~FailedExchange(resp'.exchange)
               /\ resp'.exchange.token # ""
               /\ session'[s].yandex_disk_token = resp'.exchange.token]_vars

\* a session that holds a token made a callback whose POST failed, and
\* holds the token still
C13_Witness ==
    /\ resp.to \in Sessions /\ resp.view = "auth_token POST"
    /\ resp.exchange.called /\ raises(resp.exchange)
    /\ resp.form_error
    /\ has_token(resp.to)

\* s has just been given a new answer by the view of that name
NewAnswer(s, view) == resp' # resp /\ AnsweredBy(s, view)

\* C14: in a session without a token every Browse (GET or POST) and every
\* Download request is answered with the redirect to the authorization
\* start, with no outbound call, no change of the cache and no request left
\* waiting for the provider.
C14_NoTokenNoAccess ==
    [][\A s \in Sessions :
         (~has_token(s) /\ \E view \in {"home GET", "home POST", "download_files POST"} :
                               NewAnswer(s, view))
         => /\ resp'.kind = "redirect" /\ resp'.target = "auth_url"
            /\ resp'.gets = 0 /\ ~resp'.call.called
            /\ resp'.files = <<>> /\ resp'.members = <<>>
            /\ cache' = cache /\ req' = req /\ session' = session]_vars

\* a session without a token asked for a download while the cache held an
\* entry another session had fetched
C14_Witness ==
    /\ resp.to \in Sessions /\ ~has_token(resp.to)
    /\ resp.view = "download_files POST"
    /\ resp.kind = "redirect" /\ resp.target = "auth_url"
    /\ DOMAIN cache # {}

-----------------------------------------------------------------------------
(* Properties of the Browse response (SpecCache) *)

\* C15: a Browse response has entries only when its form validated and its
\* own resolution returned a list, and then they are that list filtered,
\* whole; when the resolution fails the response has the form-level error
\* and no entries.
C15_EntriesOnlyFromOwnResolution ==
    /\ resp.files # <<>>
       => /\ resp.view = "home POST" /\ resp.errors = {} /\ ~resp.form_error
          /\ resp.call.called /\ ~resp.call.none
          /\ resp.files = SelectSeq(resp.call.val,
                                    LAMBDA f : InCategory(f, resp.call.file_type))
    /\ (resp.call.called /\ resp.call.none)
       => resp.form_error /\ resp.files = <<>>
    /\ resp.errors # {} => resp.files = <<>>

\* a resolution failed for a link of which the cache still holds an expired
\* entry with an image in it: no entries are shown
C15_Witness ==
    /\ resp.call.called /\ resp.call.none /\ resp.form_error /\ resp.files = <<>>
    /\ resp.call.key \in DOMAIN cache
    /\ \E i \in 1..Len(cache[resp.call.key].val) :
          InCategory(cache[resp.call.key].val[i], IMAGES)

-----------------------------------------------------------------------------
(* Properties of the outbound calls (Spec) *)

\* the GETs a Download request is to make: one for each URL up to the first
\* whose GET fails, that one included, and none after it
GetsDue(file_urls, fetched) ==
    LET failing == {i \in 1..Len(file_urls) : raises(fetched[i])}
    IN  IF failing = {} THEN Len(file_urls) ELSE Nth(failing, 1)

\* C16: a callback makes at most one POST to the token endpoint, a Browse
\* request at most one GET to the provider, and a Download request one GET
\* for each URL up to the first that fails and none after it.
C16_NoRetries ==
    [][/\ resp'.view = "auth_token POST"
          => resp'.gets = (IF resp'.exchange.called THEN 1 ELSE 0)
       /\ resp'.view = "home POST"
          => resp'.gets = (IF resp'.call.called /\ ~resp'.call.hit THEN 1 ELSE 0)
       /\ resp'.view \in {"auth_url GET", "auth_url POST", "auth_token GET", "home GET"}
          => resp'.gets = 0
       /\ \A s \in Sessions, file_urls \in DownloadLists :
            \A fetched \in [1..Len(file_urls) -> DownloadResponses] :
               DownloadPost(s, file_urls, fetched)
               => resp'.gets = (IF has_token(s) THEN GetsDue(file_urls, fetched) ELSE 0)]_vars

\* a Download request of two URLs made two GETs, the second of which failed
C16_Witness ==
    /\ resp.view = "download_files POST"
    /\ resp.kind = "redirect" /\ resp.target = "home"
    /\ resp.gets = 2

-----------------------------------------------------------------------------
(* Completion (SpecLive) *)

\* C17: every outbound call is bounded in time, so a request that is waiting
\* in one comes to its response.
C17_EveryRequestCompletes ==
    \A s \in Sessions : (req[s].pc # "idle") ~> (req[s].pc = "idle")

\* a Browse request is blocked in a GET that is never answered
C17_Witness ==
    \E s \in Sessions : req[s].pc = "blocked" /\ req[s].view = "home POST"

-----------------------------------------------------------------------------
(* Properties of the callback (Spec) *)

\* the callback made no call to the token endpoint and changed no session
NoExchangeMade ==
    resp'.gets = 0 /\ ~resp'.exchange.called /\ session' = session

\* C18 as stated: a callback in a session that lacks client_id or
\* client_secret is redirected to the authorization start, with no call to
\* the token endpoint and the token unchanged.
C18_RedirectedWithoutCredentials ==
    [][\A s \in Sessions, code \in Codes, response \in TokenResponses :
         (~Stored(s) /\ AuthTokenPost(s, code, response))
         => /\ resp'.kind = "redirect" /\ resp'.target = "auth_url"
            /\ NoExchangeMade]_vars

\* C18 amended: such a callback makes no call to the token endpoint and
\* leaves the token unchanged; it is redirected to the authorization start
\* when its code is not empty, and answered with the form and an error on
\* the code when it is.
C18_NoExchangeWithoutCredentials ==
    [][\A s \in Sessions, code \in Codes, response \in TokenResponses :
         (~Stored(s) /\ AuthTokenPost(s, code, response))
         => /\ NoExchangeMade
            /\ IF code # ""
               THEN resp'.kind = "redirect" /\ resp'.target = "auth_url"
               ELSE /\ resp'.kind = "render" /\ resp'.target = "disk/auth_token.html"
                    /\ resp'.errors = {"code"}]_vars

\* a callback with a code was redirected in a session without credentials
C18_Witness ==
    /\ resp.to \in Sessions /\ ~Stored(resp.to)
    /\ resp.view = "auth_token POST"
    /\ resp.kind = "redirect" /\ resp.target = "auth_url"
    /\ resp.gets = 0 /\ ~resp.exchange.called

-----------------------------------------------------------------------------
(* Properties of the category (Spec) *)

\* C19: a Browse request without a category passes the form, and when its
\* resolution returns a list the response shows no entries, whatever the
\* list holds.
C19_NoCategoryNoEntries ==
    [][\A s \in Sessions :
         (has_token(s) /\ BrowseBegin(s, LinkA, ""))
         => \/ req'[s].pc = "fetching" /\ req'[s].file_type = "" /\ resp' = resp
            \/ /\ resp'.call.called /\ resp'.call.hit /\ resp'.call.file_type = ""
               /\ resp'.errors = {} /\ ~resp'.form_error
               /\ resp'.files = <<>>]_vars
    /\ []((resp.view = "home POST" /\ resp.call.called /\ ~resp.call.none
             /\ resp.call.file_type = "")
          => (resp.files = <<>> /\ resp.errors = {} /\ ~resp.form_error))

\* a list with entries was resolved for a request without a category and
\* none of them is shown
C19_Witness ==
    /\ resp.view = "home POST" /\ resp.call.called /\ ~resp.call.none
    /\ resp.call.file_type = ""
    /\ resp.call.val # <<>>
    /\ resp.files = <<>> /\ resp.errors = {}

-----------------------------------------------------------------------------
(* Properties of the token (Spec) *)

\* C20: a session that holds a token holds one after every request, and the
\* token it holds changes only in a callback of that session whose exchange
\* returned the new one.
C20_TokenStays ==
    [][\A s \in Sessions :
         has_token(s)
         => /\ session'[s].yandex_disk_token \notin {None, ""}
            /\ session'[s].yandex_disk_token # session[s].yandex_disk_token
               => /\ AnsweredBy(s, "auth_token POST")
                  /\ resp'.exchange.called
                  /\ session'[s].yandex_disk_token = resp'.exchange.token]_vars

\* a session that holds a token has submitted credentials again and holds
\* the token still
C20_Witness ==
    /\ resp.to \in Sessions /\ has_token(resp.to)
    /\ resp.view = "auth_url POST"
    /\ resp.kind = "redirect" /\ resp.target = "auth_token"

====
